---- MODULE Spec2Model ----
(***************************************************************************)
(* Model of lib/rules/no-space-in-parens.js: the rule's create(context),   *)
(* its Program handler checkParenSpaces (one forEach over                  *)
(* sourceCode.tokensAndComments) and the host's application of the         *)
(* reported fixes followed by a second lint of the fixed text.             *)
(*                                                                         *)
(* The source text is a sequence of cells.  A cell is either one token     *)
(* (every token is one cell wide, so token k of the text occupies the      *)
(* offsets [k-1, k)) or one whitespace character.  The host's tokenizer is *)
(* the operator tokensAndComments, which computes the tokens with their    *)
(* ranges and locations from the text.                                     *)
(***************************************************************************)
EXTENDS Integers, Sequences, FiniteSets

VARIABLES
    pc,              \* "new", "createFailed", "created", "scanned", "rescanned"
    contextOptions,  \* context.options, the option list given to create
    ALWAYS,          \* src 48
    options,         \* src 51-61, an unset flag (undefined, falsy) is FALSE
    exceptions,      \* src 53, assigned at the start of checkParenSpaces
    text,            \* the source text being linted
    tokens,          \* src 260, sourceCode.tokensAndComments of the last scan
    reports,         \* the context.report calls of the last scan, in order
    threwAt,         \* 0, or the token index whose callback threw a TypeError
    firstReports     \* the reports of the first scan, kept once fixes are applied

vars == <<pc, contextOptions, ALWAYS, options, exceptions, text, tokens, reports,
          threwAt, firstReports>>

\* ------------------------------------------------------------------ bounds

MaxLen == 3

\* ------------------------------------------------------------------ tokens

Tok(type, value) == [type |-> type, value |-> value]

SP == Tok("Whitespace", " ")
NL == Tok("Whitespace", "\n")

LP     == Tok("Punctuator", "(")
RP     == Tok("Punctuator", ")")
LBRACE == Tok("Punctuator", "{")
RBRACE == Tok("Punctuator", "}")
LBRACK == Tok("Punctuator", "[")
RBRACK == Tok("Punctuator", "]")
SEMI   == Tok("Punctuator", ";")
STR    == Tok("String", "\"foo\"")
IDENT  == Tok("Identifier", "a")
LINEC  == Tok("Line", ")")
BLOCKC == Tok("Block", ")")

\* The tokens the generated texts draw from.  Of the two bracket pairs the rule
\* treats alike, "[" stands for the punctuators an exception names after "(" and
\* "}" for those it names before ")"; Examples has the other two.
Alphabet == {LP, RP, LBRACK, RBRACE, SEMI, STR, IDENT, LINEC, BLOCKC}

MISSING_SPACE_MESSAGE     == "There must be a space inside this paren."
REJECTED_SPACE_MESSAGE    == "There should be no spaces inside this paren."
UNNECESSARY_SPACE_MESSAGE == "There must be no space inside this paren with STRING expression."

ExceptionNames == {"{}", "[]", "()", "empty", "(STRING)"}

\* ------------------------------------------------------------------ host

\* The value of tokens[i] for an index outside the array.  Reading a property of
\* it throws a TypeError; the *Throws operators below say where the code does so.
undefined == [type |-> "undefined", value |-> "undefined", range |-> <<0, 0>>,
              start |-> 0, end |-> 0, loc |-> [line |-> 0, column |-> 0]]

RECURSIVE TokenCells(_, _)
\* the indices of the cells of t, from k on, that hold a token or a comment
TokenCells(t, k) ==
    IF k > Len(t) THEN <<>>
    ELSE (IF t[k].type # "Whitespace" THEN <<k>> ELSE <<>>) \o TokenCells(t, k + 1)

LineOf(t, k) == 1 + Cardinality({j \in 1..(k - 1) : t[j] = NL})

ColumnOf(t, k) == Cardinality({j \in 1..(k - 1) : \A m \in j..(k - 1) : t[m] # NL})

\* sourceCode.tokensAndComments: the toks and comments of the text in source
\* order, each with its type, value, range (start, end) and start location
tokensAndComments(t) ==
    LET cells == TokenCells(t, 1)
    IN  [i \in 1..Len(cells) |->
            [type   |-> t[cells[i]].type,
             value  |-> t[cells[i]].value,
             range  |-> <<cells[i] - 1, cells[i]>>,
             start  |-> cells[i] - 1,
             end    |-> cells[i],
             loc    |-> [line |-> LineOf(t, cells[i]), column |-> ColumnOf(t, cells[i])]]]

\* tokens[i] of a JavaScript array, with the model's indices starting at 1
At(toks, i) == IF i \in 1..Len(toks) THEN toks[i] ELSE undefined

Defined(token) == token.type # "undefined"

\* sourceCode.isSpaceBetweenTokens(left, right): whether the text between the
\* end of left and the start of right holds whitespace.  Between two neighbours
\* of tokensAndComments there is nothing but whitespace.
isSpaceBetweenTokens(left, right) == left.range[2] < right.range[1]

\* astUtils.isTokenOnSameLine(left, right); every token here ends on the line
\* it starts on
isTokenOnSameLine(left, right) == left.loc.line = right.loc.line

\* fixer.insertTextAfter(token, text), fixer.insertTextBefore(token, text) and
\* fixer.removeRange(range), each as the edit handed to the host
insertTextAfter(token, txt)  == [range |-> <<token.range[2], token.range[2]>>, text |-> txt]
insertTextBefore(token, txt) == [range |-> <<token.range[1], token.range[1]>>, text |-> txt]
removeRange(range)           == [range |-> range, text |-> <<>>]

\* ------------------------------------------------------------------ create

\* Option lists the schema accepts: no option, a mode, or a mode and an object
\* whose only property, if present, is an array of unique exception names
OptionObjects ==
    {[hasExceptions |-> FALSE, exceptions |-> {}]}
        \cup {[hasExceptions |-> TRUE, exceptions |-> e] : e \in SUBSET ExceptionNames}

OptionLists ==
    {<<>>} \cup {<<m>> : m \in {"always", "never"}}
           \cup {<<m, o>> : m \in {"always", "never"}, o \in OptionObjects}

\* src 48
Always(opts) == Len(opts) >= 1 /\ opts[1] = "always"

\* src 50 and 55: context.options[1].exceptions is undefined when the object has
\* no such property, and reading .length of it throws
CreateThrows(opts) == Len(opts) = 2 /\ ~opts[2].hasExceptions

\* src 50
exceptionsArrayOptions(opts) == IF Len(opts) = 2 THEN opts[2].exceptions ELSE {}

\* src 51-61
Options(opts) ==
    LET arr == exceptionsArrayOptions(opts)
    IN  [braceException       |-> arr # {} /\ "{}" \in arr,
         bracketException     |-> arr # {} /\ "[]" \in arr,
         parenException       |-> arr # {} /\ "()" \in arr,
         parenStringException |-> arr # {} /\ "(STRING)" \in arr,
         empty                |-> arr # {} /\ "empty" \in arr]

NoOptions == Options(<<>>)

getExceptions(o) ==
    [openers |-> (IF o.braceException THEN {"{"} ELSE {})
                    \cup (IF o.bracketException THEN {"["} ELSE {})
                    \cup (IF o.parenException THEN {"("} ELSE {})
                    \cup (IF o.empty THEN {")"} ELSE {}),
     closers |-> (IF o.braceException THEN {"}"} ELSE {})
                    \cup (IF o.bracketException THEN {"]"} ELSE {})
                    \cup (IF o.parenException THEN {")"} ELSE {})
                    \cup (IF o.empty THEN {"("} ELSE {})]

\* the rule's closure: ALWAYS, options and exceptions as the helpers see them
Closure(always, o) == [ALWAYS |-> always, options |-> o, exceptions |-> getExceptions(o)]

\* ------------------------------------------------------------------ helpers

isOpenerException(c, token) ==
    token.type = "Punctuator" /\ token.value \in c.exceptions.openers

\* isCloserException looking the value up among the openers
isCloserException_openers(c, token) ==
    token.type = "Punctuator" /\ token.value \in c.exceptions.openers

isCloserException(c, token) ==
    token.type = "Punctuator" /\ token.value \in c.exceptions.closers

\* shouldOpenerHaveSpace without its test for a following ")"
shouldOpenerHaveSpace_noCloserTest(c, left, right) ==
    IF isSpaceBetweenTokens(left, right) THEN FALSE
    ELSE IF c.ALWAYS THEN ~isOpenerException(c, right)
         ELSE isOpenerException(c, right)

shouldOpenerHaveSpace(c, left, right) ==
    IF isSpaceBetweenTokens(left, right) THEN FALSE
    ELSE IF c.ALWAYS
         THEN IF right.type = "Punctuator" /\ right.value = ")" THEN FALSE
              ELSE ~isOpenerException(c, right)
         ELSE isOpenerException(c, right)

\* shouldCloserHaveSpace with the "never" branch taken in both modes
shouldCloserHaveSpace_noAlways(c, left, right) ==
    IF left.type = "Punctuator" /\ left.value = "(" THEN FALSE
    ELSE IF isSpaceBetweenTokens(left, right) THEN FALSE
    ELSE isCloserException(c, left)

shouldCloserHaveSpace(c, left, right) ==
    IF left.type = "Punctuator" /\ left.value = "(" THEN FALSE
    ELSE IF isSpaceBetweenTokens(left, right) THEN FALSE
    ELSE IF c.ALWAYS THEN ~isCloserException(c, left)
         ELSE isCloserException(c, left)

\* shouldOpenerRejectSpace with the body of shouldOpenerHaveSpace pasted in
shouldOpenerRejectSpace_pasted(c, left, right) ==
    IF isSpaceBetweenTokens(left, right) THEN FALSE
    ELSE IF c.ALWAYS
         THEN IF right.type = "Punctuator" /\ right.value = ")" THEN FALSE
              ELSE ~isOpenerException(c, right)
         ELSE isOpenerException(c, right)

shouldOpenerRejectSpace(c, left, right) ==
    IF right.type = "Line" THEN FALSE
    ELSE IF ~isTokenOnSameLine(left, right) THEN FALSE
    ELSE IF ~isSpaceBetweenTokens(left, right) THEN FALSE
    ELSE IF c.ALWAYS THEN isOpenerException(c, right)
         ELSE ~isOpenerException(c, right)

\* shouldCloserRejectSpace with the two branches on ALWAYS swapped
shouldCloserRejectSpace_swapped(c, left, right) ==
    IF left.type = "Punctuator" /\ left.value = "(" THEN FALSE
    ELSE IF ~isTokenOnSameLine(left, right) THEN FALSE
    ELSE IF ~isSpaceBetweenTokens(left, right) THEN FALSE
    ELSE IF c.ALWAYS THEN ~isCloserException(c, left)
         ELSE isCloserException(c, left)

shouldCloserRejectSpace(c, left, right) ==
    IF left.type = "Punctuator" /\ left.value = "(" THEN FALSE
    ELSE IF ~isTokenOnSameLine(left, right) THEN FALSE
    ELSE IF ~isSpaceBetweenTokens(left, right) THEN FALSE
    ELSE IF c.ALWAYS THEN isCloserException(c, left)
         ELSE ~isCloserException(c, left)

Report(i, token, message, fix) ==
    [at |-> i, loc |-> token.loc, message |-> message, fix |-> fix]

\* checkStringInParen whose second fix removes the range of the first
checkStringInParen_sameRange(i, prevToken, token, nextToken) ==
    (IF isSpaceBetweenTokens(prevToken, token)
     THEN <<Report(i, token, UNNECESSARY_SPACE_MESSAGE,
                   removeRange(<<prevToken.end, token.start>>))>>
     ELSE <<>>)
    \o
    (IF isSpaceBetweenTokens(token, nextToken)
     THEN <<Report(i, nextToken, UNNECESSARY_SPACE_MESSAGE,
                   removeRange(<<prevToken.end, token.start>>))>>
     ELSE <<>>)

\* the reports of checkStringInParen, called from the callback of token i
checkStringInParen(i, prevToken, token, nextToken) ==
    (IF isSpaceBetweenTokens(prevToken, token)
     THEN <<Report(i, token, UNNECESSARY_SPACE_MESSAGE,
                   removeRange(<<prevToken.end, token.start>>))>>
     ELSE <<>>)
    \o
    (IF isSpaceBetweenTokens(token, nextToken)
     THEN <<Report(i, nextToken, UNNECESSARY_SPACE_MESSAGE,
                   removeRange(<<token.end, nextToken.start>>))>>
     ELSE <<>>)

\* src 244-246, the three disjuncts in the order JavaScript evaluates them
stringInParenAlreadyChecked(toks, i) ==
    \/ /\ At(toks, i).type = "Punctuator" /\ At(toks, i).value = "("
       /\ At(toks, i + 1).type = "String" /\ At(toks, i + 2).value = ")"
    \/ /\ At(toks, i).type = "String"
       /\ At(toks, i - 1).value = "(" /\ At(toks, i + 1).value = ")"
    \/ /\ At(toks, i).type = "Punctuator" /\ At(toks, i).value = ")"
       /\ At(toks, i - 1).type = "String"
       /\ At(toks, i - 2).type = "Punctuator" /\ At(toks, i - 2).value = "("

\* stringInParenAlreadyChecked reads a property of undefined: && and || stop
\* at the first operand that decides them, so a neighbour is read only when
\* every operand before it is true
stringInParenAlreadyCheckedThrows(toks, i) ==
    \/ /\ At(toks, i).type = "Punctuator" /\ At(toks, i).value = "("
       /\ \/ ~Defined(At(toks, i + 1))
          \/ At(toks, i + 1).type = "String" /\ ~Defined(At(toks, i + 2))
    \/ /\ At(toks, i).type = "String"
       /\ \/ ~Defined(At(toks, i - 1))
          \/ At(toks, i - 1).value = "(" /\ ~Defined(At(toks, i + 1))
    \/ /\ At(toks, i).type = "Punctuator" /\ At(toks, i).value = ")"
       /\ \/ ~Defined(At(toks, i - 1))
          \/ At(toks, i - 1).type = "String" /\ ~Defined(At(toks, i - 2))

\* ------------------------------------------------------------------ scan

\* src 266-271: the callback's first condition
isStringInParens(c, prevToken, token, nextToken) ==
    /\ c.options.parenStringException
    /\ token.type = "String"
    /\ prevToken.type = "Punctuator"
    /\ nextToken.type = "Punctuator"
    /\ prevToken.value = "("
    /\ nextToken.value = ")"

\* src 266-271 reads prevToken.type, then nextToken.type, of an undefined token
isStringInParensThrows(c, prevToken, token, nextToken) ==
    /\ c.options.parenStringException
    /\ token.type = "String"
    /\ \/ ~Defined(prevToken)
       \/ prevToken.type = "Punctuator" /\ ~Defined(nextToken)

isParen(token, value) == token.type = "Punctuator" /\ token.value = value

\* src 281-327: the general rules.  For "(" the first helper called reads
\* nextToken, for ")" it reads prevToken.
generalRulesThrow(prevToken, token, nextToken) ==
    \/ isParen(token, "(") /\ ~Defined(nextToken)
    \/ isParen(token, ")") /\ ~Defined(prevToken)

generalRules(c, i, prevToken, token, nextToken) ==
    IF token.type # "Punctuator" THEN <<>>
    ELSE IF token.value # "(" /\ token.value # ")" THEN <<>>
    ELSE IF token.value = "(" /\ shouldOpenerHaveSpace(c, token, nextToken)
         THEN <<Report(i, token, MISSING_SPACE_MESSAGE, insertTextAfter(token, <<SP>>))>>
    ELSE IF token.value = "(" /\ shouldOpenerRejectSpace(c, token, nextToken)
         THEN <<Report(i, token, REJECTED_SPACE_MESSAGE,
                       removeRange(<<token.range[2], nextToken.range[1]>>))>>
    ELSE IF token.value = ")" /\ shouldCloserHaveSpace(c, prevToken, token)
         THEN <<Report(i, token, MISSING_SPACE_MESSAGE, insertTextBefore(token, <<SP>>))>>
    ELSE IF token.value = ")" /\ shouldCloserRejectSpace(c, prevToken, token)
         THEN <<Report(i, token, REJECTED_SPACE_MESSAGE,
                       removeRange(<<prevToken.range[2], token.range[1]>>))>>
    ELSE <<>>

\* whether the forEach callback of token i throws a TypeError
callbackThrows(c, toks, i) ==
    LET prevToken == At(toks, i - 1)
        token     == toks[i]
        nextToken == At(toks, i + 1)
    IN  IF isStringInParensThrows(c, prevToken, token, nextToken) THEN TRUE
        ELSE IF isStringInParens(c, prevToken, token, nextToken) THEN FALSE
        ELSE IF c.options.parenStringException
                /\ stringInParenAlreadyCheckedThrows(toks, i) THEN TRUE
        ELSE IF c.options.parenStringException
                /\ stringInParenAlreadyChecked(toks, i) THEN FALSE
        ELSE generalRulesThrow(prevToken, token, nextToken)

\* the reports of the forEach callback of token i, when it does not throw
callback(c, toks, i) ==
    LET prevToken == At(toks, i - 1)
        token     == toks[i]
        nextToken == At(toks, i + 1)
    IN  IF isStringInParens(c, prevToken, token, nextToken)
        THEN checkStringInParen(i, prevToken, token, nextToken)
        ELSE IF c.options.parenStringException /\ stringInParenAlreadyChecked(toks, i)
        THEN <<>>
        ELSE generalRules(c, i, prevToken, token, nextToken)

RECURSIVE forEach(_, _, _, _)
\* tokens.forEach from index i on, given the reports made so far: the reports
\* and the index whose callback threw (0 when the loop ran to its end)
forEach(c, toks, i, acc) ==
    IF i > Len(toks) THEN [reports |-> acc, threwAt |-> 0]
    ELSE IF callbackThrows(c, toks, i) THEN [reports |-> acc, threwAt |-> i]
    ELSE forEach(c, toks, i + 1, acc \o callback(c, toks, i))

checkParenSpaces(always, o, toks) ==
    forEach(Closure(always, o), toks, 1, <<>>)

\* ------------------------------------------------------------------ fixes

RECURSIVE Inserted(_, _, _)
\* the text the fixes k.. of the list insert at offset o
Inserted(fixes, k, o) ==
    IF k > Len(fixes) THEN <<>>
    ELSE (IF fixes[k].range = <<o, o>> THEN fixes[k].text ELSE <<>>)
            \o Inserted(fixes, k + 1, o)

\* the cell [o, o+1) lies in a range some fix removes
Removed(fixes, o) ==
    \E k \in 1..Len(fixes) : fixes[k].range[1] <= o /\ o + 1 <= fixes[k].range[2]

RECURSIVE Rewrite(_, _, _)
Rewrite(t, fixes, o) ==
    IF o > Len(t) THEN <<>>
    ELSE Inserted(fixes, 1, o)
            \o (IF o < Len(t) /\ ~Removed(fixes, o) THEN <<t[o + 1]>> ELSE <<>>)
            \o Rewrite(t, fixes, o + 1)

\* the host applies every fix of a scan to the text it scanned
applyFixes(t, rs) == Rewrite(t, [k \in 1..Len(rs) |-> rs[k].fix], 0)

\* ------------------------------------------------------------------ inputs

Gaps == {<<>>, <<SP>>, <<NL>>}

RECURSIVE Interleave(_, _, _)
\* the text of the tokens k.. of toks, gaps[j] being the whitespace after token j
Interleave(toks, gaps, k) ==
    IF k > Len(toks) THEN <<>>
    ELSE <<toks[k]>> \o (IF k < Len(toks) THEN gaps[k] ELSE <<>>)
            \o Interleave(toks, gaps, k + 1)

\* a line comment runs to the end of its line: a line break or the end of the
\* text follows it
WellFormed(t) ==
    \A k \in 1..Len(t) : t[k].type = "Line" => (k = Len(t) \/ t[k + 1] = NL)

\* texts longer than MaxLen that the rule's documentation of its cases names
Examples ==
    {Interleave(<<LP, LP, IDENT, RP, RP>>, <<<<>>, <<>>, <<>>, <<>>>>, 1),
     Interleave(<<LP, LP, IDENT, RP, RP>>, <<<<SP>>, <<SP>>, <<SP>>, <<SP>>>>, 1),
     Interleave(<<LP, IDENT, RP>>, <<<<SP, SP>>, <<SP, SP>>>>, 1),
     Interleave(<<LP, STR, RP>>, <<<<SP, SP>>, <<NL, SP>>>>, 1),
     Interleave(<<IDENT, LP, STR, RP, SEMI>>, <<<<>>, <<SP>>, <<SP>>, <<>>>>, 1),
     Interleave(<<LP, STR, BLOCKC, RP>>, <<<<>>, <<>>, <<>>>>, 1),
     Interleave(<<LP, STR, LINEC, RP>>, <<<<>>, <<SP>>, <<NL>>>>, 1),
     Interleave(<<LP, LBRACE, RBRACE, RP>>, <<<<>>, <<>>, <<>>>>, 1),
     Interleave(<<LP, LBRACE, RBRACE, RP>>, <<<<SP>>, <<>>, <<SP>>>>, 1),
     Interleave(<<LP, LBRACK, RBRACK, RP>>, <<<<>>, <<>>, <<>>>>, 1),
     Interleave(<<LP, LBRACK, RBRACK, RP>>, <<<<SP>>, <<>>, <<SP>>>>, 1)}

Texts ==
    {t \in UNION {{Interleave(toks, gaps, 1) :
                        toks \in [1..n -> Alphabet], gaps \in [1..(n - 1) -> Gaps]}
                    : n \in 0..MaxLen} : WellFormed(t)}
        \cup Examples

\* ------------------------------------------------------------------ actions

Init ==
    /\ pc = "new"
    /\ contextOptions = <<>>
    /\ ALWAYS = FALSE
    /\ options = NoOptions
    /\ exceptions = getExceptions(NoOptions)
    /\ text = <<>>
    /\ tokens = <<>>
    /\ reports = <<>>
    /\ threwAt = 0
    /\ firstReports = <<>>

\* create(context), src 43-61
Create ==
    /\ pc = "new"
    /\ \E opts \in OptionLists :
        /\ contextOptions' = opts
        /\ IF CreateThrows(opts)
           THEN pc' = "createFailed" /\ UNCHANGED <<ALWAYS, options>>
           ELSE pc' = "created" /\ ALWAYS' = Always(opts) /\ options' = Options(opts)
    /\ UNCHANGED <<exceptions, text, tokens, reports, threwAt, firstReports>>

\* the Program handler, src 258-329, on the text t
Program(t) ==
    LET toks == tokensAndComments(t)
        r    == checkParenSpaces(ALWAYS, options, toks)
    IN  /\ exceptions' = getExceptions(options)
        /\ text' = t
        /\ tokens' = toks
        /\ reports' = r.reports
        /\ threwAt' = r.threwAt

\* the host lints a source text
Lint ==
    /\ pc = "created"
    /\ \E t \in Texts : Program(t)
    /\ pc' = "scanned"
    /\ UNCHANGED <<contextOptions, ALWAYS, options, firstReports>>

\* the host applies the fixes of a scan that completed to the text and lints
\* the fixed text
FixAndRelint ==
    /\ pc = "scanned"
    /\ threwAt = 0
    /\ Program(applyFixes(text, reports))
    /\ firstReports' = reports
    /\ pc' = "rescanned"
    /\ UNCHANGED <<contextOptions, ALWAYS, options>>

Next == Create \/ Lint \/ FixAndRelint

Spec == Init /\ [][Next]_vars

\* ------------------------------------------------------------------ properties

\* a scan has run and reports, threwAt and tokens are those of text
Scanned == pc \in {"scanned", "rescanned"}

\* the exception name is listed in the option list
Listed(name) == Len(contextOptions) = 2 /\ name \in contextOptions[2].exceptions

NoneListed == \A name \in ExceptionNames : ~Listed(name)

\* the callback of token i ran to its end
Processed(i) == i \in 1..Len(tokens) /\ (threwAt = 0 \/ i < threwAt)

ReportsAt(i) == SelectSeq(reports, LAMBDA r : r.at = i)

IsLP(i) == i \in 1..Len(tokens) /\ tokens[i].type = "Punctuator" /\ tokens[i].value = "("
IsRP(i) == i \in 1..Len(tokens) /\ tokens[i].type = "Punctuator" /\ tokens[i].value = ")"
IsString(i) == i \in 1..Len(tokens) /\ tokens[i].type = "String"

\* the cells of the text between token i and token i + 1
Gap(i) == SubSeq(text, tokens[i].range[2] + 1, tokens[i + 1].range[1])
HasSpace(i) == Gap(i) # <<>>
SameLine(i) == \A k \in 1..Len(Gap(i)) : Gap(i)[k] # NL
GapRange(i) == <<tokens[i].range[2], tokens[i + 1].range[1]>>

\* the one report r inserts a space at offset o, or removes the range
IsMissing(rs, o) ==
    /\ Len(rs) = 1 /\ rs[1].message = MISSING_SPACE_MESSAGE
    /\ rs[1].fix = [range |-> <<o, o>>, text |-> <<SP>>]
IsRejected(rs, range) ==
    /\ Len(rs) = 1 /\ rs[1].message = REJECTED_SPACE_MESSAGE
    /\ rs[1].fix = [range |-> range, text |-> <<>>]

\* tokens i-1, i, i+1 are "(" Punctuator, String, ")" Punctuator
IsTriple(i) == IsLP(i - 1) /\ IsString(i) /\ IsRP(i + 1)

\* C1: with no exception listed, under "always" the text (a) gets exactly two
\* missing-space reports, one per paren, inserting a space after "(" and before
\* ")", which gives ( a ); under "never" the text ( a ) gets exactly two
\* rejected-space reports, one per paren, each removing the whitespace of its
\* gap, which gives (a).
C1_ParenSpacingBasic ==
    \A a \in {IDENT, STR} :
        /\ (pc = "scanned" /\ NoneListed /\ ALWAYS /\ text = <<LP, a, RP>>) =>
              /\ threwAt = 0
              /\ Len(reports) = 2
              /\ IsMissing(ReportsAt(1), 1)
              /\ IsMissing(ReportsAt(3), 2)
              /\ applyFixes(text, reports) = <<LP, SP, a, SP, RP>>
        /\ (pc = "scanned" /\ NoneListed /\ ~ALWAYS /\ text = <<LP, SP, a, SP, RP>>) =>
              /\ threwAt = 0
              /\ Len(reports) = 2
              /\ IsRejected(ReportsAt(1), <<1, 2>>)
              /\ IsRejected(ReportsAt(3), <<3, 4>>)
              /\ applyFixes(text, reports) = <<LP, a, RP>>
        /\ (pc = "scanned" /\ NoneListed /\ ~ALWAYS
                /\ text = <<LP, SP, SP, a, SP, SP, RP>>) =>
              /\ Len(reports) = 2
              /\ IsRejected(ReportsAt(1), <<1, 3>>)
              /\ IsRejected(ReportsAt(3), <<4, 6>>)
              /\ applyFixes(text, reports) = <<LP, a, RP>>

C1_Witness ==
    /\ pc = "rescanned" /\ NoneListed /\ ~ALWAYS
    /\ Len(firstReports) = 2
    /\ firstReports[1].message = REJECTED_SPACE_MESSAGE
    /\ firstReports[2].message = REJECTED_SPACE_MESSAGE
    /\ text = <<LP, IDENT, RP>>

\* the values that make "(" exempt when they follow it, and ")" exempt when they
\* precede it, for the exception names the option list gives
ListedOpeners ==
    {v \in {"{", "[", "(", ")"} :
        \/ v = "{" /\ Listed("{}")
        \/ v = "[" /\ Listed("[]")
        \/ v = "(" /\ Listed("()")
        \/ v = ")" /\ Listed("empty")}
ListedClosers ==
    {v \in {"}", "]", ")", "("} :
        \/ v = "}" /\ Listed("{}")
        \/ v = "]" /\ Listed("[]")
        \/ v = ")" /\ Listed("()")
        \/ v = "(" /\ Listed("empty")}

\* "(" at i is followed on its line by an excepted punctuator
ExceptedOpener(i) ==
    /\ IsLP(i) /\ i + 1 <= Len(tokens)
    /\ tokens[i + 1].type = "Punctuator" /\ tokens[i + 1].value \in ListedOpeners
    /\ SameLine(i)

\* ")" at i is preceded on its line by an excepted punctuator other than "("
ExceptedCloser(i) ==
    /\ IsRP(i) /\ i - 1 >= 1
    /\ tokens[i - 1].type = "Punctuator" /\ tokens[i - 1].value \in ListedClosers
    /\ tokens[i - 1].value # "("
    /\ SameLine(i - 1)

\* C2: an excepted adjacency inverts the mode: under "always" the paren is
\* reported iff its gap holds whitespace, and then as a rejected space; under
\* "never" it is reported iff its gap holds none, and then as a missing space.
\* Under "always" with exceptions ["()"], ((a)) gets a missing-space report for
\* the inner "(" and the inner ")" and none for the outer parens.
C2_ExceptionInvertsMode ==
    Scanned =>
        /\ \A i \in 1..Len(tokens) : (Processed(i) /\ ExceptedOpener(i)) =>
              IF ALWAYS
              THEN IF HasSpace(i) THEN IsRejected(ReportsAt(i), GapRange(i))
                   ELSE ReportsAt(i) = <<>>
              ELSE IF HasSpace(i) THEN ReportsAt(i) = <<>>
                   ELSE IsMissing(ReportsAt(i), tokens[i].range[2])
        /\ \A i \in 1..Len(tokens) : (Processed(i) /\ ExceptedCloser(i)) =>
              IF ALWAYS
              THEN IF HasSpace(i - 1) THEN IsRejected(ReportsAt(i), GapRange(i - 1))
                   ELSE ReportsAt(i) = <<>>
              ELSE IF HasSpace(i - 1) THEN ReportsAt(i) = <<>>
                   ELSE IsMissing(ReportsAt(i), tokens[i].range[1])
        /\ (ALWAYS /\ Len(contextOptions) = 2 /\ contextOptions[2].exceptions = {"()"}
                /\ text = <<LP, LP, IDENT, RP, RP>>) =>
              /\ threwAt = 0
              /\ Len(reports) = 2
              /\ IsMissing(ReportsAt(2), 2)
              /\ IsMissing(ReportsAt(4), 3)

C2_Witness ==
    /\ pc = "scanned" /\ ~ALWAYS
    /\ ExceptedOpener(2) /\ Processed(2) /\ ~HasSpace(2)
    /\ tokens[3].value = "["
    /\ Len(ReportsAt(2)) = 1

\* the reports a gap of a "(" String ")" triple must get: one unnecessary-space
\* report removing the gap when the gap holds whitespace, none when it does not
StringGapReports(rs, i) ==
    IF HasSpace(i)
    THEN /\ Len(rs) = 1
         /\ rs[1].message = UNNECESSARY_SPACE_MESSAGE
         /\ rs[1].fix = [range |-> GapRange(i), text |-> <<>>]
    ELSE rs = <<>>

\* C3: with "(STRING)" listed, in either mode and with any other exceptions,
\* each gap of three consecutive tokens "(", String, ")" gets one
\* unnecessary-space report removing exactly the gap if it holds whitespace and
\* none if it does not, and the three tokens get no other report; ("foo") gets
\* no report and ( "foo" ) gets two, whose fixes give ("foo").
C3_StringInParens ==
    (Scanned /\ Listed("(STRING)")) =>
        /\ \A i \in 1..Len(tokens) : (IsTriple(i) /\ Processed(i - 1)) =>
              /\ Processed(i + 1)
              /\ ReportsAt(i - 1) = <<>>
              /\ ReportsAt(i + 1) = <<>>
              /\ StringGapReports(
                    SelectSeq(ReportsAt(i), LAMBDA r : r.loc = tokens[i].loc /\ r.fix.range[2] <= tokens[i].range[1]),
                    i - 1)
              /\ StringGapReports(
                    SelectSeq(ReportsAt(i), LAMBDA r : r.fix.range[1] >= tokens[i].range[2]),
                    i)
              /\ Len(ReportsAt(i)) = (IF HasSpace(i - 1) THEN 1 ELSE 0)
                                        + (IF HasSpace(i) THEN 1 ELSE 0)
        /\ (text = <<LP, STR, RP>>) => (threwAt = 0 /\ reports = <<>>)
        /\ (text = <<LP, SP, STR, SP, RP>>) =>
              /\ threwAt = 0
              /\ Len(reports) = 2
              /\ applyFixes(text, reports) = <<LP, STR, RP>>

C3_Witness ==
    /\ pc = "scanned" /\ Listed("(STRING)") /\ ALWAYS
    /\ IsTriple(2) /\ Processed(3)
    /\ HasSpace(1) /\ HasSpace(2)
    /\ Len(reports) = 2

\* "(" at i and ")" at i + 1 are neighbours in the token stream
IsEmptyPair(i) == IsLP(i) /\ IsRP(i + 1)

\* C4 as stated: with "empty" not listed, in either mode, neither paren of an
\* empty pair gets a report, whether or not whitespace separates them.
C4_EmptyPairNoReport ==
    (Scanned /\ ~Listed("empty")) =>
        \A i \in 1..Len(tokens) : (IsEmptyPair(i) /\ Processed(i + 1)) =>
            ReportsAt(i) = <<>> /\ ReportsAt(i + 1) = <<>>

\* C4 as amended: with "empty" not listed, the ")" of an empty pair gets no
\* report and the "(" gets no missing-space report; the "(" gets a report only
\* under "never" with whitespace between the two parens on one line, and then
\* exactly one rejected-space report whose fix removes that whitespace.
C4_EmptyPairAmended ==
    (Scanned /\ ~Listed("empty")) =>
        \A i \in 1..Len(tokens) : IsEmptyPair(i) =>
            /\ ReportsAt(i + 1) = <<>>
            /\ \/ ReportsAt(i) = <<>>
               \/ /\ ~ALWAYS /\ HasSpace(i) /\ SameLine(i)
                  /\ IsRejected(ReportsAt(i), GapRange(i))
            /\ (Processed(i) /\ ~ALWAYS /\ HasSpace(i) /\ SameLine(i)) =>
                  ReportsAt(i) # <<>>

C4_Witness ==
    /\ pc = "scanned" /\ ~Listed("empty") /\ ~ALWAYS
    /\ IsEmptyPair(1) /\ Processed(2)
    /\ HasSpace(1) /\ SameLine(1)
    /\ Len(ReportsAt(1)) = 1

\* C5: applying every fix of a completed scan and scanning the fixed text again
\* gives no report, for every text, mode and set of exceptions.
C5_FixIdempotent ==
    pc = "rescanned" => (reports = <<>> /\ threwAt = 0)

C5_Witness ==
    /\ pc = "rescanned"
    /\ \E k \in 1..Len(firstReports) : firstReports[k].fix.text = <<SP>>
    /\ \E k \in 1..Len(firstReports) : firstReports[k].fix.text = <<>>
    /\ reports = <<>>

\* C6 as stated: for every text and configuration the scan reads no neighbour
\* outside the token stream; it runs to its end without raising an error.
C6_ScanNeverThrows ==
    Scanned => threwAt = 0

\* a removal whose range meets the gap after token i
RemovesInGap(r, i) ==
    /\ r.fix.text = <<>>
    /\ r.fix.range[1] < GapRange(i)[2]
    /\ r.fix.range[2] > GapRange(i)[1]

\* C7 as stated: in every mode and with every subset of the five exceptions,
\* when "(" and the token after it are on different lines no report removes the
\* whitespace between them.
C7_LineBreakAfterOpenerKept ==
    Scanned =>
        \A i \in 1..Len(tokens) : (IsLP(i) /\ i + 1 <= Len(tokens) /\ ~SameLine(i)) =>
            \A k \in 1..Len(reports) : ~RemovesInGap(reports[k], i)

\* the paren at i belongs to three consecutive tokens "(", String, ")"
InTriple(i) == IsTriple(i + 1) \/ IsTriple(i - 1)

\* C8 as stated: with "(STRING)" listed, every paren that is not part of three
\* consecutive tokens "(" Punctuator, String, ")" Punctuator gets the reports it
\* gets with "(STRING)" not listed.
C8_StringOnlyChangesTriples ==
    (Scanned /\ Listed("(STRING)")) =>
        \A i \in 1..Len(tokens) :
            (Processed(i) /\ (IsLP(i) \/ IsRP(i)) /\ ~InTriple(i)) =>
                ReportsAt(i) =
                    callback(Closure(ALWAYS, [options EXCEPT !.parenStringException = FALSE]),
                             tokens, i)

\* the callback of token i reaches the general rules
GeneralRulesReached(i) ==
    /\ Processed(i)
    /\ ~(options.parenStringException /\ stringInParenAlreadyChecked(tokens, i))

\* C9: for a paren the needs-space and the rejects-space predicate are never
\* both true, needs-space decides first, and the paren gets at most one report.
C9_AtMostOneReport ==
    Scanned =>
        LET c == Closure(ALWAYS, options)
        IN  \A i \in 1..Len(tokens) :
                /\ (IsLP(i) /\ i + 1 <= Len(tokens)) =>
                      /\ ~(shouldOpenerHaveSpace(c, tokens[i], tokens[i + 1])
                              /\ shouldOpenerRejectSpace(c, tokens[i], tokens[i + 1]))
                      /\ (GeneralRulesReached(i)
                              /\ shouldOpenerHaveSpace(c, tokens[i], tokens[i + 1])) =>
                            IsMissing(ReportsAt(i), tokens[i].range[2])
                /\ (IsRP(i) /\ i > 1) =>
                      /\ ~(shouldCloserHaveSpace(c, tokens[i - 1], tokens[i])
                              /\ shouldCloserRejectSpace(c, tokens[i - 1], tokens[i]))
                      /\ (GeneralRulesReached(i)
                              /\ shouldCloserHaveSpace(c, tokens[i - 1], tokens[i])) =>
                            IsMissing(ReportsAt(i), tokens[i].range[1])
                /\ (IsLP(i) \/ IsRP(i)) => Len(ReportsAt(i)) <= 1

C9_Witness ==
    /\ pc = "scanned" /\ threwAt = 0
    /\ IsLP(1) /\ Len(ReportsAt(1)) = 1 /\ ReportsAt(1)[1].message = MISSING_SPACE_MESSAGE
    /\ IsRP(3) /\ Len(ReportsAt(3)) = 1 /\ ReportsAt(3)[1].message = REJECTED_SPACE_MESSAGE

\* C10 as stated: for every option list the schema accepts, creating the rule
\* completes without error, an omitted mode behaves as "never", and each flag
\* is set exactly when its name is listed.
C10_CreateTotal ==
    pc # "new" =>
        /\ pc # "createFailed"
        /\ ALWAYS = (Len(contextOptions) >= 1 /\ contextOptions[1] = "always")
        /\ options.braceException       = Listed("{}")
        /\ options.bracketException     = Listed("[]")
        /\ options.parenException       = Listed("()")
        /\ options.parenStringException = Listed("(STRING)")
        /\ options.empty                = Listed("empty")

====
